---- MODULE Spec2Model ----
(***************************************************************************)
(* triehash (src/triehash/src/lib.rs): trie_root, sec_trie_root,           *)
(* build_trie and build_trie_trampoline as a state machine.                *)
(*                                                                         *)
(* A caller hands a sequence of (key, value) pairs to trie_root or to      *)
(* sec_trie_root.  The entry collects the pairs into a BTreeMap, expands   *)
(* the keys into nibbles and calls build_trie; build_trie recurses through *)
(* build_trie_trampoline.  The recursion is kept as an explicit stack of   *)
(* frames, one per active build_trie call; each frame owns the stream      *)
(* (encoder) it writes to, recorded as the sequence of TrieStream calls    *)
(* made on it.  The TrieStream encoder and the Hasher are other crates of  *)
(* the repository: a stream is its call history, H::hash of a stream is a  *)
(* tagged copy of that history, and H::hash of a key is a one-byte fold.   *)
(*                                                                         *)
(* Indices (cursor, begin, i) are 0-based as in the source; TLA+ sequences *)
(* are 1-based, so element n of the source is element n + 1 here.          *)
(***************************************************************************)
EXTENDS Integers, Sequences, FiniteSets, TLC

\* Bounds of the model.
MaxPairs == 3
MaxKeyLen == 2

\* The bytes keys are made of (0x00, 0x01 and 0x10: two share the high
\* nibble, two the low one) and the values.
ByteVals == {0, 1, 16}
Values == {<<1>>, <<2>>}

Keys == UNION {[1..n -> ByteVals] : n \in 0..MaxKeyLen}
Pairs == Keys \X Values

\* test_triehash_out_of_order, lines 317-329: 0x0123, 0x8123, 0xf123.
OutOfOrderPairs ==
    << <<(<<1, 35>>), (<<1, 35>>)>>,
       <<(<<129, 35>>), (<<129, 35>>)>>,
       <<(<<241, 35>>), (<<241, 35>>)>> >>

Permuted(pairs, p) == [n \in 1..Len(pairs) |-> pairs[p[n]]]

\* The inputs of the model: every sequence of at most MaxPairs pairs, and
\* the pairs of test_triehash_out_of_order in every order.
Inputs ==
    UNION {[1..n -> Pairs] : n \in 0..MaxPairs}
        \cup {Permuted(OutOfOrderPairs, p) : p \in Permutations(1..3)}

Min2(a, b) == IF a < b THEN a ELSE b

----------------------------------------------------------------------------
(* Hasher (crate hashdb): deterministic, fixed-size output.                *)

RECURSIVE XorBits(_, _, _)
XorBits(a, b, n) ==
    IF n = 0 THEN 0
    ELSE (((a % 2) + (b % 2)) % 2) + 2 * XorBits(a \div 2, b \div 2, n - 1)

RECURSIVE XorFold(_, _)
XorFold(bytes, acc) ==
    IF bytes = <<>> THEN acc
    ELSE XorFold(Tail(bytes), XorBits(acc, Head(bytes), 8))

\* H::hash on a key: a one-byte digest (the XOR of the key's bytes).
HashKey(k) == <<XorFold(k, 0)>>

\* H::hash on the bytes a finished stream gives out.
HashStream(stream) == <<"H::hash", stream>>

NoDigest == <<>>

----------------------------------------------------------------------------
(* TrieStream (crate triestream): the calls build_trie makes.              *)

append_empty_data == <<"append_empty_data">>
append_leaf(key, value) == <<"append_leaf", key, value>>
append_extension(key) == <<"append_extension", key>>
begin_branch == <<"begin_branch">>
append_value(value) == <<"append_value", value>>
append_substream(other) == <<"append_substream", other>>

----------------------------------------------------------------------------
(* trie_root, lines 72-91: BTreeMap, nibbles, lens, input vector.          *)

\* Ord on byte strings: lexicographic, a proper prefix is smaller.
RECURSIVE BytesLess(_, _)
BytesLess(a, b) ==
    IF b = <<>> THEN FALSE
    ELSE IF a = <<>> THEN TRUE
    ELSE IF Head(a) # Head(b) THEN Head(a) < Head(b)
    ELSE BytesLess(Tail(a), Tail(b))

\* Faulty variant: an insertion-ordered map (entries kept in arrival order).
BTreeInsertUnordered(map, kv) ==
    IF \E n \in 1..Len(map) : map[n][1] = kv[1]
    THEN [n \in 1..Len(map) |-> IF map[n][1] = kv[1] THEN kv ELSE map[n]]
    ELSE Append(map, kv)

\* BTreeMap::insert on the map kept as its sorted entry sequence:
\* an equal key has its value overwritten.
RECURSIVE BTreeInsert(_, _)
BTreeInsert(map, kv) ==
    IF map = <<>> THEN <<kv>>
    ELSE IF Head(map)[1] = kv[1] THEN <<kv>> \o Tail(map)
    ELSE IF BytesLess(kv[1], Head(map)[1]) THEN <<kv>> \o map
    ELSE <<Head(map)>> \o BTreeInsert(Tail(map), kv)

RECURSIVE CollectFromBack(_, _)
\* Faulty variant: the pairs are inserted last to first, so that the first
\* occurrence of a key is the one that stays.
CollectFromBack(map, pairs) ==
    IF pairs = <<>> THEN map
    ELSE BTreeInsert(CollectFromBack(map, Tail(pairs)), Head(pairs))

\* input.into_iter().collect::<BTreeMap<_, _>>(): insert in input order.
RECURSIVE CollectFrom(_, _)
CollectFrom(map, pairs) ==
    IF pairs = <<>> THEN map
    ELSE CollectFrom(BTreeInsert(map, Head(pairs)), Tail(pairs))

Collect(pairs) == CollectFrom(<<>>, pairs)

RECURSIVE PushNibblesLowFirst(_, _)
\* Faulty variant: the low nibble of each byte is pushed before the high one.
PushNibblesLowFirst(nibbles, k) ==
    IF k = <<>> THEN nibbles
    ELSE PushNibblesLowFirst(nibbles \o <<Head(k) % 16, Head(k) \div 16>>, Tail(k))

\* nibbles.push(b >> 4); nibbles.push(b & 0x0F) for each byte of one key.
RECURSIVE PushNibbles(_, _)
PushNibbles(nibbles, k) ==
    IF k = <<>> THEN nibbles
    ELSE PushNibbles(nibbles \o <<Head(k) \div 16, Head(k) % 16>>, Tail(k))

\* The shared nibble buffer after the keys of map[1..n].
RECURSIVE NibbleBuf(_, _)
NibbleBuf(map, n) ==
    IF n = 0 THEN <<>> ELSE PushNibbles(NibbleBuf(map, n - 1), map[n][1])

\* lens: lens[n + 1] is nibbles.len() after n keys (lens[1] = 0).
Lens(map) == [n \in 1..(Len(map) + 1) |-> Len(NibbleBuf(map, n - 1))]

\* zip(lens.windows(2)).map(|((_, v), w)| (&nibbles[w[0]..w[1]], v))
NibbleInput(map) ==
    LET nibbles == NibbleBuf(map, Len(map))
        lens == Lens(map)
    IN [n \in 1..Len(map) |->
           <<SubSeq(nibbles, lens[n] + 1, lens[n + 1]), map[n][2]>>]

\* Faulty variant: the pairs are collected by their plain keys first and the keys
\* hashed afterwards.
HashedAfterCollect(pairs) ==
    LET map == Collect(pairs)
    IN [n \in 1..Len(map) |-> <<HashKey(map[n][1]), map[n][2]>>]

\* Faulty variant: the keys are handed on as they are.
HashedNot(pairs) == pairs

\* sec_trie_root, line 164: every key replaced by H::hash(key).
HashedInput(pairs) == [n \in 1..Len(pairs) |-> <<HashKey(pairs[n][1]), pairs[n][2]>>]

----------------------------------------------------------------------------
(* build_trie, lines 170-259, and build_trie_trampoline, lines 261-271.    *)

\* shared_prefix_len: position of the first mismatch, else the shorter length.
shared_prefix_len(first, second) ==
    LET m == Min2(Len(first), Len(second))
        mism == {p \in 1..m : first[p] # second[p]}
    IN IF mism = {} THEN m
       ELSE (CHOOSE p \in mism : \A q \in mism : p <= q) - 1

\* The fold of lines 196-198 over input[n..], n 1-based.
RECURSIVE FoldShared(_, _, _)
FoldShared(input, n, acc) ==
    IF n > Len(input) THEN acc
    ELSE FoldShared(input, n + 1,
                    Min2(shared_prefix_len(input[1][1], input[n][1]), acc))

\* Faulty variant: only the second key is compared with the first.
SharedWithSecond(input) ==
    Min2(shared_prefix_len(input[1][1], input[2][1]), Len(input[1][1]))

shared_nibble_count(input) == FoldShared(input, 2, Len(input[1][1]))

\* take_while(|(k, _)| k[cursor] == i).count() over input[from..]: the
\* number of successive elements whose nibble at cursor is i.  The scan
\* stops at the first element that differs or that has no nibble at cursor.
RECURSIVE take_while_count(_, _, _, _)
take_while_count(input, from, cursor, i) ==
    IF from >= Len(input) THEN 0
    ELSE IF cursor >= Len(input[from + 1][1]) THEN 0
    ELSE IF input[from + 1][1][cursor + 1] = i
         THEN 1 + take_while_count(input, from + 1, cursor, i)
    ELSE 0

\* The element the scan stopped at has no nibble at cursor: k[cursor] panics.
ScanPanics(input, from, cursor, i) ==
    LET stop == from + take_while_count(input, from, cursor, i)
    IN stop < Len(input) /\ cursor >= Len(input[stop + 1][1])

\* A build_trie call on a fresh (or the top-level) stream.
Frame(input, cursor) ==
    [input |-> input, cursor |-> cursor, pc |-> "start",
     i |-> 0, begin |-> 0, count |-> 0, stream |-> <<>>]

Top(st) == st[Len(st)]
Key0(st) == Top(st).input[1][1]
Value0(st) == Top(st).input[1][2]

\* One call on the stream of the running build_trie, then control to pc.
Emit(st, call, pc) ==
    [st EXCEPT ![Len(st)].stream = Append(@, call), ![Len(st)].pc = pc]

Panic(st) == [st EXCEPT ![Len(st)].pc = "panic"]

\* The loop head after slot i is done: the next slot, or past the loop.
NextSlot(i) == IF i + 1 < 16 THEN "slot" ELSE "value"

\* Faulty variant: no input, nothing written.
DoEmptyNoCall(st) == [st EXCEPT ![Len(st)].pc = "ret"]

\* line 181
DoEmpty(st) == Emit(st, append_empty_data, "ret")

\* Faulty variant: the leaf is given the whole key, not its rest from cursor.
DoLeafWholeKey(st) == Emit(st, append_leaf(Key0(st), Value0(st)), "ret")

\* line 187: &input[0].0[cursor..] panics when cursor > len
DoLeaf(st) ==
    LET f == Top(st)
    IN IF f.cursor > Len(Key0(st)) THEN Panic(st)
       ELSE Emit(st, append_leaf(SubSeq(Key0(st), f.cursor + 1, Len(Key0(st))),
                                 Value0(st)), "ret")

\* lines 205-206: the extension, then the trampoline's call of build_trie
\* on a new substream with the whole input.
DoExtension(st) ==
    LET f == Top(st)
        shared == shared_nibble_count(f.input)
    IN Append(Emit(st, append_extension(SubSeq(Key0(st), f.cursor + 1, shared)), "ext"),
              Frame(f.input, shared))

\* Faulty variant: the scan of the slots always starts at the first element.
DoBranchBeginZero(st) ==
    [Emit(st, begin_branch, "slot") EXCEPT ![Len(st)].begin = 0, ![Len(st)].i = 0]

\* lines 212-216
DoBranch(st) ==
    LET f == Top(st)
        opened == Emit(st, begin_branch, "slot")
    IN [opened EXCEPT ![Len(st)].begin = IF f.cursor = Len(Key0(st)) THEN 1 ELSE 0,
                      ![Len(st)].i = 0]

RECURSIVE Empties(_)
Empties(n) == IF n = 0 THEN <<>> ELSE <<append_empty_data>> \o Empties(n - 1)

\* Faulty variant: the fast-forward starts one slot late (i + 1..16).
DoFastForwardShort(st) ==
    [st EXCEPT ![Len(st)].stream = @ \o Empties(15 - st[Len(st)].i),
               ![Len(st)].pc = "value"]

\* lines 223-229: the rest of the slots are empty, the loop is left
DoFastForward(st) ==
    [st EXCEPT ![Len(st)].stream = @ \o Empties(16 - Top(st).i),
               ![Len(st)].pc = "value"]

\* lines 231-238, 246: nothing has nibble i
DoSlotEmpty(st) ==
    LET f == Top(st)
    IN IF ScanPanics(f.input, f.begin, f.cursor, f.i) THEN Panic(st)
       ELSE [Emit(st, append_empty_data, NextSlot(f.i)) EXCEPT ![Len(st)].i = f.i + 1]

\* Faulty variant: the run is built with the caller's cursor.
DoSlotRecurseSameCursor(st) ==
    LET f == Top(st)
        count == take_while_count(f.input, f.begin, f.cursor, f.i)
    IN Append([st EXCEPT ![Len(st)].pc = "rec", ![Len(st)].count = count],
              Frame(SubSeq(f.input, f.begin + 1, f.begin + count), f.cursor))

\* lines 231-233, 243: the trampoline's call of build_trie on a new
\* substream with the run of elements that have nibble i
DoSlotRecurse(st) ==
    LET f == Top(st)
        count == take_while_count(f.input, f.begin, f.cursor, f.i)
    IN IF ScanPanics(f.input, f.begin, f.cursor, f.i) THEN Panic(st)
       ELSE Append([st EXCEPT ![Len(st)].pc = "rec", ![Len(st)].count = count],
                   Frame(SubSeq(f.input, f.begin + 1, f.begin + count), f.cursor + 1))

\* Faulty variant: the value slot is always left empty.
DoValueNever(st) == Emit(st, append_empty_data, "ret")

\* lines 250-256
DoValue(st) ==
    IF Top(st).cursor = Len(Key0(st))
    THEN Emit(st, append_value(Value0(st)), "ret")
    ELSE Emit(st, append_empty_data, "ret")

\* line 270, then the caller goes on: after an extension it returns
\* (line 208), in a slot it adds the run to begin (line 246) and loops.
DoReturn(st) ==
    LET child == Top(st)
        callers == SubSeq(st, 1, Len(st) - 1)
        p == Top(callers)
        spliced == [callers EXCEPT ![Len(callers)].stream =
                                       Append(@, append_substream(child.stream))]
    IN IF p.pc = "ext"
       THEN [spliced EXCEPT ![Len(callers)].pc = "ret"]
       ELSE [spliced EXCEPT ![Len(callers)].begin = p.begin + p.count,
                            ![Len(callers)].i = p.i + 1,
                            ![Len(callers)].pc = NextSlot(p.i)]

\* Which step of build_trie the running call is at.
AtEmpty(st) == st # <<>> /\ Top(st).pc = "start" /\ Len(Top(st).input) = 0
AtLeaf(st) == st # <<>> /\ Top(st).pc = "start" /\ Len(Top(st).input) = 1
AtMany(st) == st # <<>> /\ Top(st).pc = "start" /\ Len(Top(st).input) >= 2
AtExtension(st) == AtMany(st) /\ shared_nibble_count(Top(st).input) > Top(st).cursor
AtBranch(st) == AtMany(st) /\ ~(shared_nibble_count(Top(st).input) > Top(st).cursor)
AtSlot(st) == st # <<>> /\ Top(st).pc = "slot"
AtFastForward(st) == AtSlot(st) /\ Top(st).begin >= Len(Top(st).input)
AtScan(st) == AtSlot(st) /\ Top(st).begin < Len(Top(st).input)
AtSlotEmpty(st) ==
    AtScan(st) /\ take_while_count(Top(st).input, Top(st).begin, Top(st).cursor, Top(st).i) = 0
AtSlotRecurse(st) ==
    AtScan(st) /\ take_while_count(Top(st).input, Top(st).begin, Top(st).cursor, Top(st).i) > 0
AtValue(st) == st # <<>> /\ Top(st).pc = "value"
AtReturn(st) == Len(st) >= 2 /\ Top(st).pc = "ret"
AtFinish(st) == Len(st) = 1 /\ Top(st).pc = "ret"
Panicked(st) == st # <<>> /\ Top(st).pc = "panic"

\* lines 72-94: the state build_trie(&input, 0, &mut stream) starts in.
trie_root_entry(pairs) == <<Frame(NibbleInput(Collect(pairs)), 0)>>

\* line 164
sec_trie_root_entry(pairs) == trie_root_entry(HashedInput(pairs))

\* The step build_trie takes next.
Step(st) ==
    CASE AtEmpty(st) -> DoEmpty(st)
      [] AtLeaf(st) -> DoLeaf(st)
      [] AtExtension(st) -> DoExtension(st)
      [] AtBranch(st) -> DoBranch(st)
      [] AtFastForward(st) -> DoFastForward(st)
      [] AtSlotEmpty(st) -> DoSlotEmpty(st)
      [] AtSlotRecurse(st) -> DoSlotRecurse(st)
      [] AtValue(st) -> DoValue(st)
      [] AtReturn(st) -> DoReturn(st)
      [] OTHER -> st

\* build_trie run until the outermost call returns (or a call panics).
RECURSIVE Run(_)
Run(st) == IF AtFinish(st) \/ Panicked(st) THEN st ELSE Run(Step(st))

\* The calls build_trie(input, cursor, stream) makes on a fresh stream.
build_trie(pairs, cursor) ==
    LET end == Run(<<Frame(pairs, cursor)>>)
    IN IF Panicked(end) THEN <<"panic">> ELSE Top(end).stream

\* lines 93-95 after the entry: the digest of the top-level stream.
Digest(st) ==
    LET end == Run(st)
    IN IF Panicked(end) THEN <<"panic">> ELSE HashStream(Top(end).stream)

trie_root(pairs) == Digest(trie_root_entry(pairs))

sec_trie_root(pairs) == Digest(sec_trie_root_entry(pairs))

----------------------------------------------------------------------------
VARIABLES input, entry, stack, out

vars == <<input, entry, stack, out>>

\* Before the call: no input handed over, nothing running, no result.
Init ==
    /\ input = <<>>
    /\ entry = "none"
    /\ stack = <<>>
    /\ out = NoDigest

\* The caller calls trie_root with some input.
TrieRoot ==
    /\ entry = "none"
    /\ \E pairs \in Inputs :
           /\ input' = pairs
           /\ stack' = trie_root_entry(pairs)
    /\ entry' = "trie_root"
    /\ UNCHANGED out

\* The caller calls sec_trie_root with some input.
SecTrieRoot ==
    /\ entry = "none"
    /\ \E pairs \in Inputs :
           /\ input' = pairs
           /\ stack' = sec_trie_root_entry(pairs)
    /\ entry' = "sec_trie_root"
    /\ UNCHANGED out

BuildEmpty ==
    /\ AtEmpty(stack)
    /\ stack' = DoEmpty(stack)
    /\ UNCHANGED <<input, entry, out>>

BuildLeaf ==
    /\ AtLeaf(stack)
    /\ stack' = DoLeaf(stack)
    /\ UNCHANGED <<input, entry, out>>

BuildExtension ==
    /\ AtExtension(stack)
    /\ stack' = DoExtension(stack)
    /\ UNCHANGED <<input, entry, out>>

BuildBranch ==
    /\ AtBranch(stack)
    /\ stack' = DoBranch(stack)
    /\ UNCHANGED <<input, entry, out>>

FastForward ==
    /\ AtFastForward(stack)
    /\ stack' = DoFastForward(stack)
    /\ UNCHANGED <<input, entry, out>>

SlotEmpty ==
    /\ AtSlotEmpty(stack)
    /\ stack' = DoSlotEmpty(stack)
    /\ UNCHANGED <<input, entry, out>>

SlotRecurse ==
    /\ AtSlotRecurse(stack)
    /\ stack' = DoSlotRecurse(stack)
    /\ UNCHANGED <<input, entry, out>>

BranchValue ==
    /\ AtValue(stack)
    /\ stack' = DoValue(stack)
    /\ UNCHANGED <<input, entry, out>>

TrampolineReturn ==
    /\ AtReturn(stack)
    /\ stack' = DoReturn(stack)
    /\ UNCHANGED <<input, entry, out>>

\* line 95: H::hash(&stream.out())
Finish ==
    /\ AtFinish(stack)
    /\ out = NoDigest
    /\ out' = HashStream(Top(stack).stream)
    /\ UNCHANGED <<input, entry, stack>>

Next ==
    \/ TrieRoot
    \/ SecTrieRoot
    \/ BuildEmpty
    \/ BuildLeaf
    \/ BuildExtension
    \/ BuildBranch
    \/ FastForward
    \/ SlotEmpty
    \/ SlotRecurse
    \/ BranchValue
    \/ TrampolineReturn
    \/ Finish

Spec == Init /\ [][Next]_vars

\* The steps of a call that has been made.
Running ==
    \/ BuildEmpty
    \/ BuildLeaf
    \/ BuildExtension
    \/ BuildBranch
    \/ FastForward
    \/ SlotEmpty
    \/ SlotRecurse
    \/ BranchValue
    \/ TrampolineReturn
    \/ Finish

\* A call that has been made runs on: a step that can be taken is taken.
\* Nothing obliges the caller to call.
FairSpec == Spec /\ WF_vars(Running)

Called == entry # "none"

Done == out # NoDigest

----------------------------------------------------------------------------
(* Claims.                                                                 *)

KeysOf(pairs) == {pairs[n][1] : n \in 1..Len(pairs)}
DistinctKeys(pairs) == Cardinality(KeysOf(pairs)) = Len(pairs)

\* C1: order independence.  When trie_root has returned for an input with
\* pairwise distinct keys, its result (the digest of the tree of encoder
\* calls) is the result of trie_root on every permutation of that input.
\* The pairs of test_triehash_out_of_order, in each of their 6 orders, are
\* among the inputs.
C1_OrderIndependence ==
    (Done /\ entry = "trie_root" /\ DistinctKeys(input)) =>
        \A p \in Permutations(1..Len(input)) :
            trie_root(Permuted(input, p)) = out

\* C1 witness: trie_root has returned for three distinct keys handed over
\* in descending order.
C1_Witness ==
    /\ Done /\ entry = "trie_root" /\ Len(input) = 3 /\ DistinctKeys(input)
    /\ BytesLess(input[3][1], input[2][1]) /\ BytesLess(input[2][1], input[1][1])

\* The input with every key kept once, at its last occurrence.
RECURSIVE LastOccurrences(_)
LastOccurrences(pairs) ==
    IF pairs = <<>> THEN <<>>
    ELSE IF Head(pairs)[1] \in KeysOf(Tail(pairs))
         THEN LastOccurrences(Tail(pairs))
    ELSE <<Head(pairs)>> \o LastOccurrences(Tail(pairs))

\* C2: last write wins.  When trie_root has returned, its result is the
\* result of trie_root on the input in which every key occurs once, paired
\* with the value of its last occurrence in input order.
C2_LastWriteWins ==
    (Done /\ entry = "trie_root") => out = trie_root(LastOccurrences(input))

\* C2 witness: trie_root has returned for an input in which a key occurs
\* twice, first with one value and later with another.
C2_Witness ==
    /\ Done /\ entry = "trie_root"
    /\ \E m, n \in 1..Len(input) :
           m < n /\ input[m][1] = input[n][1] /\ input[m][2] # input[n][2]

\* C3: empty input.  trie_root on the empty pair sequence runs one
\* build_trie call, which makes one append_empty_data call on the
\* top-level stream and no other call, and the digest is that of the
\* stream with this one call.
C3_EmptyInput ==
    (entry = "trie_root" /\ input = <<>>) =>
        /\ Len(stack) = 1
        /\ stack[1].pc \in {"start", "ret"}
        /\ stack[1].pc = "start" => stack[1].stream = <<>>
        /\ stack[1].pc = "ret" => stack[1].stream = <<append_empty_data>>
        /\ Done => out = HashStream(<<append_empty_data>>)

\* C3 witness: trie_root has returned for the empty input.
C3_Witness == Done /\ entry = "trie_root" /\ input = <<>>

\* The nibbles of a key: nibble j (from 1) is the high half of byte
\* (j + 1) / 2 when j is odd and the low half of byte j / 2 when j is even.
ExpandedKey(k) ==
    [j \in 1..(2 * Len(k)) |->
        IF j % 2 = 1 THEN k[(j + 1) \div 2] \div 16 ELSE k[j \div 2] % 16]

\* C4: single pair.  For an input whose pairs all have one key k (so that
\* it normalizes to the pair of k and the last value v), trie_root runs one
\* build_trie call, whose only call on the top-level stream is
\* append_leaf(n, v) with n the 2 * Len(k) nibbles of k, high nibble first;
\* and every build_trie call on a one-pair slice makes exactly one call,
\* append_leaf of the pair's nibbles from cursor to their end and its value.
C4_SinglePair ==
    /\ (entry = "trie_root" /\ input # <<>> /\ Cardinality(KeysOf(input)) = 1) =>
           LET leaf == append_leaf(ExpandedKey(input[1][1]), input[Len(input)][2])
           IN /\ Len(stack) = 1
              /\ stack[1].pc = "ret" => stack[1].stream = <<leaf>>
              /\ Done => out = HashStream(<<leaf>>)
    /\ \A j \in 1..Len(stack) :
           Len(stack[j].input) = 1 =>
               LET f == stack[j]
                   k == f.input[1][1]
               IN /\ f.pc \in {"start", "ret"}
                  /\ f.pc = "start" => f.stream = <<>>
                  /\ f.pc = "ret" =>
                         /\ f.cursor <= Len(k)
                         /\ f.stream = <<append_leaf(SubSeq(k, f.cursor + 1, Len(k)),
                                                      f.input[1][2])>>

\* C4 witness: trie_root has returned for two pairs of one two-byte key
\* that ends in the byte 0x10.
C4_Witness ==
    /\ Done /\ entry = "trie_root" /\ Len(input) = 2
    /\ input[1][1] = input[2][1] /\ input[1][2] # input[2][2]
    /\ Len(input[1][1]) = 2 /\ input[1][1][2] = 16

\* The input with every key replaced by its hash, order and values kept.
KeysHashed(pairs) ==
    [n \in 1..Len(pairs) |-> <<HashKey(pairs[n][1]), pairs[n][2]>>]

\* C5: secure root definition.  When sec_trie_root has returned, its result
\* is the result of trie_root on the input with every key replaced by its
\* hash, in the same order and with the same values (so keys with equal
\* hashes collapse to the value of the last of them).
C5_SecureRootDefinition ==
    (Done /\ entry = "sec_trie_root") => out = trie_root(KeysHashed(input))

\* C5 witness: sec_trie_root has returned for an input in which two
\* different keys have one hash, the first on top of that being the larger
\* key, and different values.
C5_Witness ==
    /\ Done /\ entry = "sec_trie_root"
    /\ \E m, n \in 1..Len(input) :
           /\ m < n /\ BytesLess(input[n][1], input[m][1])
           /\ HashKey(input[m][1]) = HashKey(input[n][1])
           /\ input[m][2] # input[n][2]

\* The pair set of an input: each key with the value of its last occurrence.
PairSet(pairs) ==
    LET last == LastOccurrences(pairs) IN {last[n] : n \in 1..Len(last)}

\* C6 as stated: for every non-empty input trie_root and sec_trie_root
\* differ; they are equal for the empty input only.
C6_SecureDivergence ==
    (Done /\ entry = "trie_root") =>
        ((out = sec_trie_root(input)) <=> (input = <<>>))

\* C6 amended: trie_root and sec_trie_root differ on an input exactly when
\* replacing the keys by their hashes changes the input's pair set; they are
\* equal for the empty input and for every input whose pair set the hashing
\* leaves as it is.
C6_SecureDivergenceAmended ==
    (Done /\ entry = "trie_root") =>
        ((out = sec_trie_root(input)) <=> (PairSet(KeysHashed(input)) = PairSet(input)))

\* C6 witness: trie_root has returned for a non-empty input on which
\* sec_trie_root gives the same result.
C6_Witness ==
    Done /\ entry = "trie_root" /\ input # <<>> /\ out = sec_trie_root(input)

IsExtension(f) == f.stream # <<>> /\ f.stream[1][1] = "append_extension"
IsBranch(f) == f.stream # <<>> /\ f.stream[1] = begin_branch

\* C7: no fallible path.  No build_trie call reachable from trie_root or
\* sec_trie_root panics on an index or a slice: a one-pair call has cursor
\* <= the key's length; a call that emitted an extension has cursor <
\* shared <= the first key's length; in a call on two or more pairs every
\* pair but the first is longer than cursor, and while the slots of a
\* branch are scanned every pair from begin on is longer than cursor.
C7_NoFalliblePath ==
    /\ ~Panicked(stack)
    /\ \A j \in 1..Len(stack) :
           LET f == stack[j]
               n == Len(f.input)
           IN /\ n = 1 => f.cursor <= Len(f.input[1][1])
              /\ n >= 2 =>
                     /\ \A m \in 2..n : Len(f.input[m][1]) > f.cursor
                     /\ IsExtension(f) =>
                            /\ f.cursor < shared_nibble_count(f.input)
                            /\ shared_nibble_count(f.input) <= Len(f.input[1][1])
                     /\ f.pc \in {"slot", "rec"} =>
                            \A m \in (f.begin + 1)..n : Len(f.input[m][1]) > f.cursor

\* C7 witness: the slots of a branch below the root are being scanned from
\* the second pair on, the first pair's key ending at cursor.
C7_Witness ==
    /\ Len(stack) >= 2 /\ Top(stack).pc = "slot"
    /\ Top(stack).begin = 1 /\ Top(stack).begin < Len(Top(stack).input)
    /\ Len(Key0(stack)) = Top(stack).cursor

\* The byte length of the longest key handed to trie_root.
LongestKeyBytes ==
    LET pairs == IF entry = "sec_trie_root" THEN KeysHashed(input) ELSE input
        lens == {Len(pairs[n][1]) : n \in 1..Len(pairs)} \cup {0}
    IN CHOOSE l \in lens : \A m \in lens : m <= l

\* Every call below the outermost one has a larger cursor than its caller,
\* no cursor exceeds the nibble length of a pair of its slice, and the
\* number of calls below the outermost one is at most twice the byte
\* length of the longest key.
DepthBounded ==
    /\ \A j \in 2..Len(stack) : stack[j].cursor > stack[j - 1].cursor
    /\ \A j \in 1..Len(stack) :
           \A n \in 1..Len(stack[j].input) :
               stack[j].cursor <= Len(stack[j].input[n][1])
    /\ stack # <<>> => Len(stack) - 1 <= 2 * LongestKeyBytes

\* C8: termination and depth bound.  Every call of trie_root and of
\* sec_trie_root that is made returns a digest, and all along every
\* recursive call has a larger cursor than its caller, a cursor within
\* every key of its slice, and a depth of at most twice the longest key's
\* byte length.
C8_TerminationAndDepth == []DepthBounded /\ (Called ~> Done)

\* C8 witness: the recursion is as deep as twice the longest key's length.
C8_Witness ==
    /\ stack # <<>> /\ LongestKeyBytes >= 1
    /\ Len(stack) - 1 = 2 * LongestKeyBytes

\* All pairs have the first s nibbles of the first pair's key.
AgreeOn(pairs, s) ==
    \A m \in 2..Len(pairs) :
        /\ Len(pairs[m][1]) >= s
        /\ SubSeq(pairs[m][1], 1, s) = SubSeq(pairs[1][1], 1, s)

\* The length of the longest prefix of the first key that all pairs have.
SharedWithFirst(pairs) ==
    CHOOSE s \in 0..Len(pairs[1][1]) :
        /\ AgreeOn(pairs, s)
        /\ \A t \in (s + 1)..Len(pairs[1][1]) : ~AgreeOn(pairs, t)

\* C9: extension rule.  A build_trie call on two or more pairs, with shared
\* the length of the longest prefix of the first key common to all pairs,
\* emits an extension exactly when shared > cursor: then its calls are one
\* append_extension of the nibbles [cursor, shared) of the first key and one
\* append_substream of what build_trie writes to a fresh stream for the
\* whole slice with cursor = shared, and nothing else; otherwise shared =
\* cursor and its first call is begin_branch.
C9_ExtensionRule ==
    \A j \in 1..Len(stack) :
        LET f == stack[j]
            shared == SharedWithFirst(f.input)
            ext == append_extension(SubSeq(f.input[1][1], f.cursor + 1, shared))
        IN /\ f.pc = "start" => f.stream = <<>>
           /\ (Len(f.input) >= 2 /\ f.pc # "start") =>
                  /\ IsExtension(f) <=> shared > f.cursor
                  /\ IsBranch(f) <=> shared = f.cursor
                  /\ shared > f.cursor =>
                         /\ f.pc \in {"ext", "ret"}
                         /\ f.pc = "ext" =>
                                /\ f.stream = <<ext>>
                                /\ j < Len(stack)
                                /\ stack[j + 1].input = f.input
                                /\ stack[j + 1].cursor = shared
                         /\ f.pc = "ret" =>
                                f.stream = <<ext, append_substream(build_trie(f.input, shared))>>

\* C9 witness: below a branch at shared = cursor whose second and third
\* pair share a longer prefix, the call for these two has emitted an
\* extension and its child.
C9_Witness ==
    /\ Len(stack) = 2
    /\ IsBranch(stack[1]) /\ Len(stack[1].input) = 3
    /\ shared_prefix_len(stack[1].input[2][1], stack[1].input[3][1]) > stack[1].cursor + 1
    /\ IsExtension(stack[2]) /\ stack[2].pc = "ret" /\ stack[2].cursor = stack[1].cursor + 1

\* The places in a call's slice of the pairs with nibble i at cursor.
SlotPlaces(f, i) ==
    {m \in 1..Len(f.input) :
        Len(f.input[m][1]) > f.cursor /\ f.input[m][1][f.cursor + 1] = i}

\* What slot i of a branch holds: empty data when no pair has nibble i at
\* cursor, else the substream build_trie writes for the run of the pairs
\* that have it, with cursor + 1.
SlotCall(f, i) ==
    LET places == SlotPlaces(f, i)
        lo == CHOOSE m \in places : \A q \in places : m <= q
        hi == CHOOSE m \in places : \A q \in places : q <= m
    IN IF places = {} THEN append_empty_data
       ELSE append_substream(build_trie(SubSeq(f.input, lo, hi), f.cursor + 1))

\* C10: branch child slots.  After begin_branch a call fills the 16 child
\* slots in the order 0..15, one call each (also when the fast-forward
\* fills the rest): slot i is append_empty_data when no pair other than one
\* ending at cursor has nibble i at cursor, else one append_substream of the
\* child built on a fresh stream from the contiguous run of the pairs with
\* nibble i at cursor, with cursor + 1; every pair of the slice but one
\* ending at cursor is in the run of one slot.
C10_BranchChildSlots ==
    /\ \A j \in 1..(Len(stack) - 1) :
           LET f == stack[j]
           IN IsBranch(f) =>
                 /\ f.pc = "rec" /\ f.i < 16 /\ Len(f.stream) = 1 + f.i
                 /\ SlotPlaces(f, f.i) # {}
                 /\ SlotPlaces(f, f.i) = (f.begin + 1)..(f.begin + f.count)
                 /\ stack[j + 1].input = SubSeq(f.input, f.begin + 1, f.begin + f.count)
                 /\ stack[j + 1].cursor = f.cursor + 1
                 /\ stack[j + 1].pc = "start" => stack[j + 1].stream = <<>>
    /\ (stack # <<>> /\ IsBranch(Top(stack))) =>
           LET f == Top(stack)
           IN /\ f.pc \in {"slot", "value", "ret"}
              /\ f.pc = "slot" =>
                     /\ f.i < 16 /\ Len(f.stream) = 1 + f.i
                     /\ f.i > 0 => f.stream[f.i + 1] = SlotCall(f, f.i - 1)
              /\ f.pc = "value" =>
                     /\ Len(f.stream) = 17
                     /\ \A i \in 0..15 : f.stream[i + 2] = SlotCall(f, i)
              /\ f.pc = "ret" => Len(f.stream) = 18
              /\ \A m \in 1..Len(f.input) :
                     \/ m = 1 /\ Len(f.input[1][1]) = f.cursor
                     \/ \E i \in 0..15 : m \in SlotPlaces(f, i)

\* C10 witness: a branch whose first pair ends at cursor has its 16 child
\* slots filled: slot 0 by the substream of the run of the two other pairs,
\* the slots after it by the fast-forward.
C10_Witness ==
    /\ stack # <<>>
    /\ Top(stack).pc = "value" /\ IsBranch(Top(stack))
    /\ Len(Top(stack).input) = 3
    /\ Len(Key0(stack)) = Top(stack).cursor
    /\ Top(stack).stream[2][1] = "append_substream"
    /\ Top(stack).stream[3] = append_empty_data

\* C11: branch value slot.  A branch call makes no append_value call while
\* it fills its 16 child slots; once it is about to return it has made 18
\* calls: begin_branch, 16 child slots (each empty data or a substream) and
\* one value slot, which is append_value of the first pair's value when the
\* first pair's nibble length equals cursor and append_empty_data otherwise.
\* A first pair that ends at cursor is in no child slot: the 16 child slots
\* are those of the slice without it.
C11_BranchValueSlot ==
    /\ \A j \in 1..Len(stack) :
           LET f == stack[j]
           IN (IsBranch(f) /\ f.pc # "ret") =>
                 /\ Len(f.stream) <= 17
                 /\ \A n \in 1..Len(f.stream) : f.stream[n][1] # "append_value"
    /\ (stack # <<>> /\ IsBranch(Top(stack)) /\ Top(stack).pc = "ret") =>
           LET f == Top(stack)
               ends == Len(f.input[1][1]) = f.cursor
               rest == [f EXCEPT !.input = Tail(f.input)]
           IN /\ Len(f.stream) = 18
              /\ \A n \in 2..17 :
                     f.stream[n][1] \in {"append_empty_data", "append_substream"}
              /\ f.stream[18] = IF ends THEN append_value(f.input[1][2])
                                 ELSE append_empty_data
              /\ ends => \A i \in 0..15 : f.stream[i + 2] = SlotCall(rest, i)

\* C11 witness: a nested branch whose first pair ends at its cursor is
\* about to return with that pair's value in its value slot.
C11_Witness ==
    /\ Len(stack) >= 2
    /\ IsBranch(Top(stack)) /\ Top(stack).pc = "ret"
    /\ Len(Key0(stack)) = Top(stack).cursor
    /\ Len(Top(stack).stream) = 18
    /\ Top(stack).stream[18] = append_value(Value0(stack))

\* What is not a node of a trie, where a pair was looked for.
Malformed == << <<"malformed">> >>

\* The pairs the calls of one stream give out, in the order of the calls,
\* each as its value with the nibbles on the way to it: path, then an
\* extension's nibbles, a branch's slot index, a leaf's partial key.
RECURSIVE Emitted(_, _)
RECURSIVE EmittedSlots(_, _, _)
Emitted(node, path) ==
    IF Len(node) = 1 /\ node[1] = append_empty_data THEN <<>>
    ELSE IF Len(node) = 1 /\ node[1][1] = "append_leaf"
         THEN << <<path \o node[1][2], node[1][3]>> >>
    ELSE IF Len(node) = 2 /\ node[1][1] = "append_extension"
                          /\ node[2][1] = "append_substream"
         THEN Emitted(node[2][2], path \o node[1][2])
    ELSE IF Len(node) = 18 /\ node[1] = begin_branch
         THEN EmittedSlots(node, path, 0)
              \o (IF node[18][1] = "append_value" THEN << <<path, node[18][2]>> >>
                  ELSE IF node[18] = append_empty_data THEN <<>>
                  ELSE Malformed)
    ELSE Malformed

\* The pairs the child slots i..15 of a branch give out.
EmittedSlots(node, path, i) ==
    IF i = 16 THEN <<>>
    ELSE (IF node[i + 2][1] = "append_substream"
          THEN Emitted(node[i + 2][2], path \o <<i>>)
          ELSE IF node[i + 2] = append_empty_data THEN <<>>
          ELSE Malformed)
         \o EmittedSlots(node, path, i + 1)

\* C12: path reconstruction.  In the tree of calls of a finished trie_root
\* (for sec_trie_root: on the hashed keys), the append_leaf and branch
\* append_value calls are as many as the pairs of the normalized set, and
\* each of these pairs is given out by one of them: its value, reached by a
\* path whose extension nibbles, branch slot indices and leaf partial key,
\* concatenated in order, are the nibbles of its key.
C12_PathReconstruction ==
    Done =>
        LET pairs == IF entry = "sec_trie_root" THEN KeysHashed(input) ELSE input
            last == LastOccurrences(pairs)
            emitted == Emitted(out[2], <<>>)
        IN /\ Len(emitted) = Len(last)
           /\ {emitted[n] : n \in 1..Len(emitted)}
                  = {<<ExpandedKey(last[n][1]), last[n][2]>> : n \in 1..Len(last)}

\* C12 witness: trie_root has returned a tree with an extension over a
\* branch that has a value in its value slot and a leaf with a non-empty
\* partial key in a child slot.
C12_Witness ==
    /\ Done /\ entry = "trie_root"
    /\ Len(out[2]) = 2 /\ out[2][1][1] = "append_extension"
    /\ LET branch == out[2][2][2]
       IN /\ Len(branch) = 18 /\ branch[1] = begin_branch
          /\ branch[18][1] = "append_value"
          /\ \E i \in 0..15 :
                 /\ branch[i + 2][1] = "append_substream"
                 /\ Len(branch[i + 2][2]) = 1
                 /\ branch[i + 2][2][1][1] = "append_leaf"
                 /\ branch[i + 2][2][1][2] # <<>>

====
